---- MODULE Spec2Model ----
(***************************************************************************)
(* DefaultErrorHandler of                                                  *)
(* airbyte_cdk/sources/declarative/requesters/error_handlers/              *)
(* default_error_handler.py: classification of the outcome of an HTTP      *)
(* request (interpret_response), the wait before the next attempt          *)
(* (backoff_time) and the per-request attempt bookkeeping.                 *)
(*                                                                         *)
(* Python values: None is the string "None" where the other values are     *)
(* strings, an Optional[float] is <<>> (None) or <<x>>, a text is a tuple   *)
(* of one-character strings, a dict is a function, and dict objects live   *)
(* in a heap so that two references to one object can be told from two     *)
(* equal objects.                                                          *)
(***************************************************************************)
EXTENDS Integers, Sequences, FiniteSets, TLC

VARIABLES
    response_filters,                \* self.response_filters
    backoff_strategies,              \* self.backoff_strategies
    heap,                            \* the dict objects created so far
    _last_request_to_attempt_count,  \* self._last_request_to_attempt_count: a reference into heap
    last,                            \* the most recent completed sequential call and what it returned
    hist,                            \* requests of the non-ok responses interpreted so far, in call order
    pc,                              \* per flow: the position inside interpret_response
    frame,                           \* per flow: the locals of the running call and its return
    calls,                           \* per flow: requests of the non-ok responses it has interpreted
    supplied,                        \* the lists handed to the constructor, as they were at that time
    handlers                         \* handlers constructed from the list object supplied.response_filters

vars == <<response_filters, backoff_strategies, heap, _last_request_to_attempt_count,
          last, hist, pc, frame, calls, supplied, handlers>>

----------------------------------------------------------------------------
(* Bounds *)

MaxFilters == 2        \* longest user-supplied response_filters list
MaxStrategies == 2     \* longest user-supplied backoff_strategies list
MaxFails == 3          \* non-ok responses interpreted in one sequential run
MaxAttempt == 2        \* largest attempt_count handed to backoff_time
MaxFlowCalls == 2      \* non-ok responses interpreted by one concurrent flow
MaxHandlers == 2       \* handlers constructed from one response_filters list object

----------------------------------------------------------------------------
(* Values *)

None == "None"

Requests == {"reqA", "reqB"}

Statuses == {200, 302, 404, 429, 500}

\* "retrythisrequest!" shortened to two characters
Needle == <<"r", "!">>

Texts == { <<"a", "r", "!">>, <<"R", "!">>, <<"o", "k">> }

NoFloat == <<>>

Float(x) == <<x>>

\* requests.Response: status_code, request, text and the Retry-After header
Responses ==
    { [type |-> "Response", status_code |-> s, request |-> r, text |-> b, retry_after |-> h] :
        s \in Statuses, r \in Requests, b \in { <<"a", "r", "!">>, <<"o", "k">> },
        h \in {NoFloat, Float(7)} }

Exceptions ==
    { [type |-> "Exception", message |-> m] : m \in Texts }

NoOutcome == [type |-> None]

\* Optional[Union[requests.Response, Exception]]; a Retry-After header only on a 429
Outcomes ==
    { o \in Responses : o.retry_after # NoFloat => o.status_code = 429 }
        \cup Exceptions \cup {NoOutcome}

\* backoff_time reads neither the request nor the text of a response
BackoffOutcomes ==
    { o \in Outcomes :
        /\ o.type = "Response" => o.request = "reqA" /\ o.text = <<"o", "k">>
        /\ o.type = "Exception" => o.message = <<"o", "k">> }

SeqsUpTo(S, n) == UNION { [1..k -> S] : k \in 0..n }

\* the text contains the substring (Python's `in` on str, case-sensitive)
Contains(needle, text) ==
    \E i \in 1..(Len(text) - Len(needle) + 1) :
        SubSeq(text, i, i + Len(needle) - 1) = needle

----------------------------------------------------------------------------
(* ErrorResolution *)

ErrorResolution(action, failure_type, error_message) ==
    [response_action |-> action, failure_type |-> failure_type, error_message |-> error_message]

SUCCESS_RESOLUTION == ErrorResolution("SUCCESS", None, None)

DEFAULT_ERROR_RESOLUTION == ErrorResolution("RETRY", "TRANSIENT", "unknown error")

\* matches() returned None
NoResolution == ErrorResolution(None, None, None)

----------------------------------------------------------------------------
(* HttpResponseFilter *)

HttpResponseFilter(action, http_codes, error_message_contains, error_message) ==
    [action |-> action, http_codes |-> http_codes,
     error_message_contains |-> error_message_contains, error_message |-> error_message]

\* HttpResponseFilter(config=self.config, parameters={}): no action, no condition
DefaultFilter == HttpResponseFilter(None, {}, <<>>, None)

FilterPool ==
    { HttpResponseFilter("IGNORE", {200, 404}, <<>>, "f1"),
      HttpResponseFilter("RETRY", {404}, <<>>, "f2"),
      HttpResponseFilter("IGNORE", {429}, <<>>, "f3"),
      HttpResponseFilter("FAIL", {}, Needle, "f4") }

\* failure type of a resolution whose filter sets none
InferredFailureType(action) ==
    CASE action = "RETRY" -> "TRANSIENT"
      [] action = "FAIL" -> "SYSTEM"
      [] OTHER -> None

OutcomeText(o) ==
    CASE o.type = "Response" -> o.text
      [] o.type = "Exception" -> o.message
      [] OTHER -> <<>>

\* HttpResponseFilter.matches: the resolution of a matching filter, else NoResolution
matches(f, o) ==
    LET code_match == o.type = "Response" /\ o.status_code \in f.http_codes
        text_match == /\ f.error_message_contains # <<>>
                      /\ o.type \in {"Response", "Exception"}
                      /\ Contains(f.error_message_contains, OutcomeText(o))
        catch_all == /\ f.http_codes = {}
                     /\ f.error_message_contains = <<>>
                     /\ o.type = "Response"
                     /\ ~(o.status_code \in 200..299)
    IN  IF code_match \/ text_match
          THEN ErrorResolution(f.action, InferredFailureType(f.action), f.error_message)
          ELSE IF catch_all
                 THEN ErrorResolution("RETRY", "TRANSIENT", None)
                 ELSE NoResolution

----------------------------------------------------------------------------
(* BackoffStrategy *)

BackoffStrategy(type, param) == [type |-> type, param |-> param]

RECURSIVE Pow2(_)
Pow2(n) == IF n <= 0 THEN 1 ELSE 2 * Pow2(n - 1)

\* DefaultErrorHandler.DEFAULT_BACKOFF_STRATEGY(parameters=parameters, config=self.config)
DEFAULT_BACKOFF_STRATEGY == BackoffStrategy("ExponentialBackoffStrategy", 2)

StrategyPool ==
    { BackoffStrategy("ConstantBackoffStrategy", 0),
      BackoffStrategy("ConstantBackoffStrategy", 5),
      BackoffStrategy("WaitTimeFromHeaderBackoffStrategy", 0) }

\* BackoffStrategy.backoff_time(response_or_exception, attempt_count)
strategy_backoff_time(s, o, attempt_count) ==
    CASE s.type = "ConstantBackoffStrategy" -> Float(s.param)
      [] s.type = "WaitTimeFromHeaderBackoffStrategy" ->
            IF o.type = "Response" THEN o.retry_after ELSE NoFloat
      [] OTHER -> Float((s.param * Pow2(attempt_count)) \div 2)

----------------------------------------------------------------------------
(* requests.Response.ok: raise_for_status() raises for 400 <= status < 600 *)

ok(o) == ~(400 <= o.status_code /\ o.status_code < 600)

\* Python truthiness of a list: `x or []`
OrEmpty(x) == IF x = <<>> THEN <<>> ELSE x

\* Python truthiness of an Optional[float]: None and 0 are false
Truthy(b) == b # NoFloat /\ b[1] # 0

----------------------------------------------------------------------------
(* DefaultErrorHandler.__post_init__ *)

post_init_response_filters(user_filters) ==
    Append(OrEmpty(user_filters), DefaultFilter)

\* lines 112-113 written like lines 108-110: the default is always appended
post_init_backoff_strategies_appends(user_strategies) ==
    Append(OrEmpty(user_strategies), DEFAULT_BACKOFF_STRATEGY)

\* lines 112-113
post_init_backoff_strategies(user_strategies) ==
    IF user_strategies = <<>> THEN <<DEFAULT_BACKOFF_STRATEGY>> ELSE user_strategies

EmptyDict == [r \in {} |-> 0]

AttemptCount == heap[_last_request_to_attempt_count]

----------------------------------------------------------------------------
(* DefaultErrorHandler.interpret_response *)

\* lines 125-128 with the increment of line 128 left out
update_attempt_count_no_increment(h, ref, request) ==
    IF request \notin DOMAIN h[ref]
      THEN [heap |-> Append(h, request :> 1), ref |-> Len(h) + 1]
      ELSE [heap |-> h, ref |-> ref]

\* lines 125-128 with line 126 adding the key to the dict instead of replacing the dict
update_attempt_count_keeps_entries(h, ref, request) ==
    IF request \notin DOMAIN h[ref]
      THEN [heap |-> [h EXCEPT ![ref] = (request :> 1) @@ @], ref |-> ref]
      ELSE [heap |-> [h EXCEPT ![ref][request] = @ + 1], ref |-> ref]

\* lines 125-128: the bookkeeping for the request of a response that is not ok
update_attempt_count(h, ref, request) ==
    IF request \notin DOMAIN h[ref]
      THEN [heap |-> Append(h, request :> 1), ref |-> Len(h) + 1]
      ELSE [heap |-> [h EXCEPT ![ref][request] = @ + 1], ref |-> ref]

\* lines 130-133 without the early return of line 133: the last match is kept
RECURSIVE first_match_last_wins(_, _, _)
first_match_last_wins(filters, o, i) ==
    IF i > Len(filters)
      THEN [resolution |-> NoResolution, consulted |-> Len(filters)]
      ELSE LET later == first_match_last_wins(filters, o, i + 1)
           IN  IF later.resolution # NoResolution
                 THEN later
                 ELSE [resolution |-> matches(filters[i], o), consulted |-> Len(filters)]

\* lines 130-133: the loop over the filters, from filter i on
RECURSIVE first_match(_, _, _)
first_match(filters, o, i) ==
    IF i > Len(filters)
      THEN [resolution |-> NoResolution, consulted |-> Len(filters)]
      ELSE LET matched_status == matches(filters[i], o)
           IN  IF matched_status # NoResolution
                 THEN [resolution |-> matched_status, consulted |-> i]
                 ELSE first_match(filters, o, i + 1)

\* lines 129-135 without the test of line 132: the first filter's answer is returned
resolve_error_returns_first(filters, o) ==
    IF filters # <<>>
      THEN [resolution |-> matches(filters[1], o), consulted |-> 1]
      ELSE [resolution |-> DEFAULT_ERROR_RESOLUTION, consulted |-> 0]

\* lines 129-135 with a request that was counted before given up (FAIL)
resolve_error_gives_up(filters, o) ==
    IF o.request \in DOMAIN AttemptCount
      THEN [resolution |-> ErrorResolution("FAIL", "SYSTEM", None), consulted |-> 0]
      ELSE LET fm == IF filters # <<>>
                       THEN first_match(filters, o, 1)
                       ELSE [resolution |-> NoResolution, consulted |-> 0]
           IN  IF fm.resolution # NoResolution
                 THEN fm
                 ELSE [resolution |-> DEFAULT_ERROR_RESOLUTION, consulted |-> fm.consulted]

\* lines 129-135: what a response that is not ok resolves to
resolve_error(filters, o) ==
    LET fm == IF filters # <<>>
                THEN first_match(filters, o, 1)
                ELSE [resolution |-> NoResolution, consulted |-> 0]
    IN  IF fm.resolution # NoResolution
          THEN fm
          ELSE [resolution |-> DEFAULT_ERROR_RESOLUTION, consulted |-> fm.consulted]

\* lines 117-135 without the early return of lines 120-121
interpret_response_no_ok_check(filters, o) ==
    IF o.type = "Response"
      THEN resolve_error(filters, o)
      ELSE [resolution |-> DEFAULT_ERROR_RESOLUTION, consulted |-> 0]

\* lines 117-135 with line 120 testing for a status below 500
interpret_response_ok_below_500(filters, o) ==
    IF o.type = "Response"
      THEN IF o.status_code < 500
             THEN [resolution |-> SUCCESS_RESOLUTION, consulted |-> 0]
             ELSE resolve_error(filters, o)
      ELSE [resolution |-> DEFAULT_ERROR_RESOLUTION, consulted |-> 0]

\* lines 117-135 with the filter loop of lines 129-133 outside the isinstance test
interpret_response_filters_for_all(filters, o) ==
    IF o.type = "Response" /\ ok(o)
      THEN [resolution |-> SUCCESS_RESOLUTION, consulted |-> 0]
      ELSE resolve_error(filters, o)

\* lines 117-135: the value returned, with the number of filters asked
interpret_response(filters, o) ==
    IF o.type = "Response"
      THEN IF ok(o)
             THEN [resolution |-> SUCCESS_RESOLUTION, consulted |-> 0]
             ELSE resolve_error(filters, o)
      ELSE [resolution |-> DEFAULT_ERROR_RESOLUTION, consulted |-> 0]

\* lines 119-123 with the bookkeeping ahead of the test of line 120
CountsAttempt_any_response(o) == o.type = "Response"

\* the call counts an attempt: lines 119-123 lead to line 125
CountsAttempt(o) == o.type = "Response" /\ ~ok(o)

----------------------------------------------------------------------------
(* DefaultErrorHandler.backoff_time *)

\* lines 142-146: the loop over the strategies, from strategy i on
RECURSIVE backoff_loop(_, _, _, _, _)
backoff_loop(strategies, o, attempt_count, i, backoff) ==
    IF i > Len(strategies)
      THEN [backoff |-> backoff, consulted |-> Len(strategies)]
      ELSE LET b == strategy_backoff_time(strategies[i], o, attempt_count)
           IN  IF Truthy(b)
                 THEN [backoff |-> b, consulted |-> i]
                 ELSE backoff_loop(strategies, o, attempt_count, i + 1, b)

\* lines 137-146
backoff_time(strategies, o, attempt_count) ==
    IF strategies # <<>>
      THEN backoff_loop(strategies, o, attempt_count, 1, NoFloat)
      ELSE [backoff |-> NoFloat, consulted |-> 0]

----------------------------------------------------------------------------
(* Sequential use of one handler *)

Flows == {"flow1", "flow2"}

IdleFrame == [outcome |-> NoOutcome, d |-> 0, v |-> 0,
              resolution |-> NoResolution, raised |-> None]

NoCall == [op |-> "none", outcome |-> NoOutcome, attempt_count |-> 0,
           resolution |-> NoResolution, backoff |-> NoFloat, consulted |-> 0]

Constructed(user_filters, user_strategies) ==
    /\ response_filters = post_init_response_filters(user_filters)
    /\ backoff_strategies = post_init_backoff_strategies(user_strategies)
    /\ heap = <<EmptyDict>>
    /\ _last_request_to_attempt_count = 1
    /\ last = NoCall
    /\ hist = <<>>
    /\ pc = [t \in Flows |-> "idle"]
    /\ frame = [t \in Flows |-> IdleFrame]
    /\ calls = [t \in Flows |-> <<>>]
    /\ supplied = [response_filters |-> user_filters, backoff_strategies |-> user_strategies]
    /\ handlers = 1

\* interpret_response never reads backoff_strategies and backoff_time never reads
\* response_filters: a handler is given user filters or user strategies, not both
Init ==
    \E user_filters \in SeqsUpTo(FilterPool, MaxFilters),
       user_strategies \in SeqsUpTo(StrategyPool, MaxStrategies) :
        /\ user_filters = <<>> \/ user_strategies = <<>>
        /\ Constructed(user_filters, user_strategies)

InterpretResponse(o) ==
    LET r == interpret_response(response_filters, o)
        u == update_attempt_count(heap, _last_request_to_attempt_count, o.request)
    IN  /\ CountsAttempt(o) => Len(hist) < MaxFails
        /\ IF CountsAttempt(o)
             THEN /\ heap' = u.heap
                  /\ _last_request_to_attempt_count' = u.ref
                  /\ hist' = Append(hist, o.request)
             ELSE UNCHANGED <<heap, _last_request_to_attempt_count, hist>>
        /\ last' = [op |-> "interpret_response", outcome |-> o, attempt_count |-> 0,
                    resolution |-> r.resolution, backoff |-> NoFloat,
                    consulted |-> r.consulted]
        /\ UNCHANGED <<response_filters, backoff_strategies, pc, frame, calls>>
        /\ UNCHANGED <<supplied, handlers>>

BackoffTime(o, attempt_count) ==
    LET b == backoff_time(backoff_strategies, o, attempt_count)
    IN  /\ last' = [op |-> "backoff_time", outcome |-> o, attempt_count |-> attempt_count,
                    resolution |-> NoResolution, backoff |-> b.backoff,
                    consulted |-> b.consulted]
        /\ UNCHANGED <<response_filters, backoff_strategies, heap,
                       _last_request_to_attempt_count, hist, pc, frame, calls>>
        /\ UNCHANGED <<supplied, handlers>>

Next ==
    \/ \E o \in Outcomes : InterpretResponse(o)
    \/ \E o \in BackoffOutcomes, attempt_count \in 0..MaxAttempt : BackoffTime(o, attempt_count)

Spec == Init /\ [][Next]_vars

----------------------------------------------------------------------------
(* Properties of sequential use *)

Interpreted == last.op = "interpret_response"

InterpretedResponse == Interpreted /\ last.outcome.type = "Response"

BackedOff == last.op = "backoff_time"

Min(S) == CHOOSE x \in S : \A y \in S : x <= y

NoUserFilters == response_filters = <<DefaultFilter>>

\* C1: a response with a status in 200..299 resolves to SUCCESS_RESOLUTION under
\* every filter list, and no filter is asked about it
C1_SuccessOn2xx ==
    (InterpretedResponse /\ last.outcome.status_code \in 200..299)
        => /\ last.resolution = SUCCESS_RESOLUTION
           /\ last.consulted = 0

\* a 200 response was interpreted by a handler whose first filter lists status 200
C1_Witness ==
    /\ InterpretedResponse
    /\ last.outcome.status_code = 200
    /\ 200 \in response_filters[1].http_codes
    /\ last.resolution = SUCCESS_RESOLUTION

Matching(o) ==
    { i \in 1..Len(response_filters) : matches(response_filters[i], o) # NoResolution }

F1 == HttpResponseFilter("IGNORE", {200, 404}, <<>>, "f1")
F2 == HttpResponseFilter("RETRY", {404}, <<>>, "f2")
F3 == HttpResponseFilter("IGNORE", {429}, <<>>, "f3")

\* C3: a response that is not ok resolves to what the lowest-index matching filter
\* returns; [404->IGNORE, 404->RETRY] resolves a 404 to IGNORE, and
\* [429->IGNORE, 404->RETRY] resolves 429 to IGNORE, 404 to RETRY, 500 to RETRY
C3_FirstMatchWins ==
    (Interpreted /\ CountsAttempt(last.outcome)) =>
        LET o == last.outcome
            status == o.status_code
            action == last.resolution.response_action
        IN  /\ Matching(o) # {} =>
                /\ last.resolution = matches(response_filters[Min(Matching(o))], o)
                /\ last.consulted = Min(Matching(o))
            /\ (response_filters = <<F1, F2, DefaultFilter>> /\ status = 404)
                   => action = "IGNORE"
            /\ (response_filters = <<F3, F2, DefaultFilter>> /\ status = 429)
                   => action = "IGNORE"
            /\ (response_filters = <<F3, F2, DefaultFilter>> /\ status \in {404, 500})
                   => action = "RETRY"

\* a 404 that the first two filters both match, with different resolutions
C3_Witness ==
    /\ Interpreted
    /\ CountsAttempt(last.outcome)
    /\ {1, 2} \subseteq Matching(last.outcome)
    /\ matches(response_filters[1], last.outcome) # matches(response_filters[2], last.outcome)
    /\ last.resolution = matches(response_filters[1], last.outcome)

\* the number of entries at the end of h that equal the last one
RECURSIVE TrailingRun(_)
TrailingRun(h) ==
    IF Len(h) <= 1
      THEN Len(h)
      ELSE IF h[Len(h) - 1] = h[Len(h)]
             THEN 1 + TrailingRun(SubSeq(h, 1, Len(h) - 1))
             ELSE 1

Occurrences(h, r) == Cardinality({ i \in 1..Len(h) : h[i] = r })

\* C4: after k consecutive non-ok responses of a request that had none before
\* them, the count of that request is k (so 1, 2, ..., k call after call, and 1
\* for the first non-ok response of another request), whatever the filters say
C4_AttemptCounting ==
    hist # <<>> =>
        LET r == hist[Len(hist)]
            k == TrailingRun(hist)
        IN  Occurrences(hist, r) = k =>
                /\ r \in DOMAIN AttemptCount
                /\ AttemptCount[r] = k

\* three non-ok responses of one request in a row, the third one ignored
C4_Witness ==
    /\ hist = <<"reqA", "reqA", "reqA">>
    /\ AttemptCount["reqA"] = 3
    /\ Interpreted
    /\ CountsAttempt(last.outcome)
    /\ last.resolution.response_action = "IGNORE"

\* C5 as stated: every request that had a non-ok response keeps its entry, and
\* the entry counts the non-ok responses of that request
C5_CountsPerRequest ==
    \A r \in Requests :
        Occurrences(hist, r) > 0 =>
            /\ r \in DOMAIN AttemptCount
            /\ AttemptCount[r] = Occurrences(hist, r)

\* C5 amended: a non-ok response of a request that has no entry replaces the
\* map by the single entry request -> 1, dropping the entries of the other
\* requests; one of a request that has an entry adds 1 to it and leaves the
\* other entries as they are
C5_ReplacesOrIncrements ==
    [][hist' # hist =>
          LET r == hist'[Len(hist')]
          IN  IF r \in DOMAIN AttemptCount
                THEN AttemptCount' = [AttemptCount EXCEPT ![r] = @ + 1]
                ELSE /\ DOMAIN AttemptCount' = {r}
                     /\ AttemptCount'[r] = 1]_vars

\* reqA then reqB failed: the entry of reqA is gone
C5_Witness ==
    /\ hist = <<"reqA", "reqB">>
    /\ DOMAIN AttemptCount = {"reqB"}
    /\ AttemptCount["reqB"] = 1

Durations(o, attempt_count) ==
    [i \in 1..Len(backoff_strategies) |->
        strategy_backoff_time(backoff_strategies[i], o, attempt_count)]

Decided(o, attempt_count) ==
    { i \in 1..Len(backoff_strategies) : Durations(o, attempt_count)[i] # NoFloat }

\* C6: backoff_time returns the duration of the first strategy that returns one,
\* not that of a later strategy, and returns None when no strategy returns one
C6_FirstDurationWins ==
    BackedOff =>
        LET d == Durations(last.outcome, last.attempt_count)
            S == Decided(last.outcome, last.attempt_count)
        IN  last.backoff = IF S = {} THEN NoFloat ELSE d[Min(S)]

\* C7: when the first strategy that returns a duration returns 0, backoff_time
\* returns 0
C7_ZeroIsADecision ==
    BackedOff =>
        LET d == Durations(last.outcome, last.attempt_count)
            S == Decided(last.outcome, last.attempt_count)
        IN  (S # {} /\ d[Min(S)] = Float(0)) => last.backoff = Float(0)

SubstringMatching(o) ==
    { i \in 1..Len(response_filters) :
        /\ response_filters[i].error_message_contains # <<>>
        /\ Contains(response_filters[i].error_message_contains, o.message) }

\* C8: an exception whose message contains the substring of a filter resolves to
\* what the first such filter returns
C8_SubstringOnException ==
    (Interpreted /\ last.outcome.type = "Exception" /\ SubstringMatching(last.outcome) # {})
        => last.resolution =
               matches(response_filters[Min(SubstringMatching(last.outcome))], last.outcome)

\* C11 as stated: an outcome that is neither a response nor an exception is
\* not resolved to RETRY (the call fails instead)
C11_NoRetryOnUnknownOutcome ==
    (Interpreted /\ last.outcome.type = None)
        => last.resolution.response_action # "RETRY"

\* C11 amended: an outcome that is neither a response nor an exception returns
\* DEFAULT_ERROR_RESOLUTION (action RETRY); no filter is asked and nothing is
\* counted
C11_DefaultOnUnknownOutcome ==
    (Interpreted /\ last.outcome.type = None)
        => /\ last.resolution = DEFAULT_ERROR_RESOLUTION
           /\ last.consulted = 0

\* None was interpreted after a non-ok response: retried, the count untouched
C11_Witness ==
    /\ Interpreted
    /\ last.outcome = NoOutcome
    /\ last.resolution.response_action = "RETRY"
    /\ hist = <<"reqA">>
    /\ AttemptCount["reqA"] = 1

Actions == {"SUCCESS", "RETRY", "FAIL", "IGNORE"}

C14_NonPositiveAttemptIsOne ==
    (BackedOff /\ last.attempt_count <= 0)
        => last.backoff = backoff_time(backoff_strategies, last.outcome, 1).backoff

\* the resolution as a function of the filters and the outcome alone
ResolutionOf(filters, o) ==
    LET M == { i \in 1..Len(filters) : matches(filters[i], o) # NoResolution }
    IN  CASE o.type # "Response" -> DEFAULT_ERROR_RESOLUTION
          [] o.type = "Response" /\ o.status_code \notin 400..599 -> SUCCESS_RESOLUTION
          [] OTHER -> IF M = {} THEN DEFAULT_ERROR_RESOLUTION ELSE matches(filters[Min(M)], o)

\* the duration as a function of the strategies, the outcome and the attempt
\* count alone: that of the first strategy whose duration is neither None nor
\* 0, else that of the last strategy
DurationOf(strategies, o, attempt_count) ==
    LET d == [i \in 1..Len(strategies) |-> strategy_backoff_time(strategies[i], o, attempt_count)]
        T == { i \in 1..Len(strategies) : d[i] # NoFloat /\ d[i] # Float(0) }
    IN  IF T # {} THEN d[Min(T)]
        ELSE IF strategies = <<>> THEN NoFloat ELSE d[Len(strategies)]

\* C15: whatever the attempt counts are, interpret_response returns the
\* resolution that the filters and the outcome alone determine, and backoff_time
\* the duration that the strategies, the outcome and the attempt count alone
\* determine
C15_CountsDoNotInfluence ==
    /\ Interpreted => last.resolution = ResolutionOf(response_filters, last.outcome)
    /\ BackedOff =>
          last.backoff = DurationOf(backoff_strategies, last.outcome, last.attempt_count)

\* the same non-ok response of reqA was interpreted with no count and, here,
\* with count 2 behind it, and resolved by the first filter as it is without
\* any count
C15_Witness ==
    /\ Interpreted
    /\ CountsAttempt(last.outcome)
    /\ hist = <<"reqA", "reqA", "reqA">>
    /\ AttemptCount["reqA"] = 3
    /\ last.consulted = 1
    /\ Len(response_filters) > 1
    /\ last.resolution = matches(response_filters[1], last.outcome)

\* C16: without user filters a response is resolved to RETRY only if its status
\* is 429 or in 500..599
C16_RetryOnly429And5xx ==
    (InterpretedResponse /\ NoUserFilters /\ last.resolution.response_action = "RETRY")
        => (last.outcome.status_code = 429 \/ last.outcome.status_code \in 500..599)

\* C17: the strategy list is never empty: it is the one default exponential
\* strategy when no strategy was handed to the constructor and the list handed to
\* it otherwise, and no call changes it
C17_StrategiesAsSupplied ==
    /\ backoff_strategies # <<>>
    /\ supplied.backoff_strategies = <<>>
          => backoff_strategies = <<DEFAULT_BACKOFF_STRATEGY>>
    /\ supplied.backoff_strategies # <<>>
          => backoff_strategies = supplied.backoff_strategies

\* two strategies were supplied and are still the list after a counted
\* interpret_response call and a backoff_time call
C17_Witness ==
    /\ Len(supplied.backoff_strategies) = 2
    /\ backoff_strategies = supplied.backoff_strategies
    /\ hist # <<>>
    /\ BackedOff

\* C18: a backoff_time call and an interpret_response call on anything but a
\* response with a status in 400..599 leave the attempt-count map as it was
C18_MapChangesOnlyOnFailure ==
    [][(\/ last'.op = "backoff_time"
        \/ last'.outcome.type # "Response"
        \/ last'.outcome.status_code \notin 400..599)
          => /\ heap' = heap
             /\ _last_request_to_attempt_count' = _last_request_to_attempt_count]_vars

\* a 200 response of reqA was interpreted after two non-ok ones: the count of
\* reqA is still 2
C18_Witness ==
    /\ Interpreted
    /\ last.outcome.type = "Response"
    /\ last.outcome.status_code = 200
    /\ last.outcome.request = "reqA"
    /\ hist = <<"reqA", "reqA">>
    /\ AttemptCount["reqA"] = 2

\* C19: in sequential use the map is empty until the first non-ok response and
\* then holds one entry: the request of the most recent non-ok response, with
\* the number (>= 1) of non-ok responses of that request since the last non-ok
\* response of another request
C19_OnlyLastRequest ==
    IF hist = <<>>
      THEN DOMAIN AttemptCount = {}
      ELSE /\ DOMAIN AttemptCount = {hist[Len(hist)]}
           /\ AttemptCount[hist[Len(hist)]] = TrailingRun(hist)
           /\ AttemptCount[hist[Len(hist)]] >= 1

\* reqA failed, then reqB twice: the only entry is reqB -> 2
C19_Witness ==
    /\ hist = <<"reqA", "reqB", "reqB">>
    /\ DOMAIN AttemptCount = {"reqB"}
    /\ AttemptCount["reqB"] = 2

----------------------------------------------------------------------------
(* Several handlers constructed from one response_filters list object *)

\* lines 108-110 run for another handler that is given the list object
\* supplied.response_filters again. A non-empty list is kept by `or` at line 108,
\* so that object is self.response_filters of every handler built from it and
\* line 110 appends to it; an empty list is replaced by a new list of the new
\* handler.
ConstructAnother ==
    /\ handlers < MaxHandlers
    /\ handlers' = handlers + 1
    /\ response_filters' =
          IF supplied.response_filters # <<>>
            THEN post_init_response_filters(response_filters)
            ELSE response_filters
    /\ UNCHANGED <<backoff_strategies, heap, _last_request_to_attempt_count,
                   last, hist, pc, frame, calls, supplied>>

NextBuild ==
    \/ ConstructAnother
    \/ \E o \in Outcomes : InterpretResponse(o)
    \/ \E o \in BackoffOutcomes, attempt_count \in 0..MaxAttempt : BackoffTime(o, attempt_count)

SpecBuild == Init /\ [][NextBuild]_vars

\* C12: the filter list of a handler is the user filters handed to its
\* constructor, in their order, followed by exactly one default filter, also
\* after other handlers were constructed from the same list object and after
\* any call
C12_UserFiltersThenOneDefault ==
    response_filters = Append(supplied.response_filters, DefaultFilter)

----------------------------------------------------------------------------
(* Concurrent use of one handler: each flow runs interpret_response one        *)
(* bytecode-level access of self._last_request_to_attempt_count at a time      *)

\* the outcomes the concurrent flows report
FlowOutcomes ==
    { o \in Outcomes :
        /\ o.type = "Response"
        /\ o.status_code \in {200, 404, 500}
        /\ o.text = <<"o", "k">> }

InitFlows ==
    \E user_filters \in { <<>>, <<F3, F2>> } : Constructed(user_filters, <<>>)

\* lines 117-123: the call is entered; a response that is ok, an exception and
\* None return at once
Call(t, o) ==
    /\ pc[t] = "idle"
    /\ CountsAttempt(o) => Len(calls[t]) < MaxFlowCalls
    /\ IF CountsAttempt(o)
         THEN /\ pc' = [pc EXCEPT ![t] = "test"]
              /\ frame' = [frame EXCEPT ![t] = [IdleFrame EXCEPT !.outcome = o]]
              /\ calls' = [calls EXCEPT ![t] = Append(@, o.request)]
         ELSE /\ frame' = [frame EXCEPT ![t] =
                    [IdleFrame EXCEPT !.outcome = o,
                        !.resolution = interpret_response(response_filters, o).resolution]]
              /\ UNCHANGED <<pc, calls>>
    /\ UNCHANGED <<response_filters, backoff_strategies, heap,
                   _last_request_to_attempt_count, last, hist>>
    /\ UNCHANGED <<supplied, handlers>>

\* line 125: request not in self._last_request_to_attempt_count
Test(t) ==
    /\ pc[t] = "test"
    /\ pc' = [pc EXCEPT ![t] =
                IF frame[t].outcome.request \notin DOMAIN AttemptCount
                  THEN "store_new" ELSE "load"]
    /\ UNCHANGED <<response_filters, backoff_strategies, heap,
                   _last_request_to_attempt_count, last, hist, frame, calls>>
    /\ UNCHANGED <<supplied, handlers>>

\* line 126: self._last_request_to_attempt_count = {request: 1}
StoreNew(t) ==
    /\ pc[t] = "store_new"
    /\ heap' = Append(heap, frame[t].outcome.request :> 1)
    /\ _last_request_to_attempt_count' = Len(heap) + 1
    /\ pc' = [pc EXCEPT ![t] = "filters"]
    /\ UNCHANGED <<response_filters, backoff_strategies, last, hist, frame, calls>>
    /\ UNCHANGED <<supplied, handlers>>

\* line 128: the dict self._last_request_to_attempt_count is loaded
Load(t) ==
    /\ pc[t] = "load"
    /\ frame' = [frame EXCEPT ![t].d = _last_request_to_attempt_count]
    /\ pc' = [pc EXCEPT ![t] = "subscr"]
    /\ UNCHANGED <<response_filters, backoff_strategies, heap,
                   _last_request_to_attempt_count, last, hist, calls>>
    /\ UNCHANGED <<supplied, handlers>>

\* line 128: the loaded dict is read at [request]; a missing key raises KeyError
Subscr(t) ==
    /\ pc[t] = "subscr"
    /\ IF frame[t].outcome.request \in DOMAIN heap[frame[t].d]
         THEN /\ frame' = [frame EXCEPT ![t].v = heap[frame[t].d][frame[t].outcome.request]]
              /\ pc' = [pc EXCEPT ![t] = "store"]
         ELSE /\ frame' = [frame EXCEPT ![t].raised = "KeyError"]
              /\ pc' = [pc EXCEPT ![t] = "idle"]
    /\ UNCHANGED <<response_filters, backoff_strategies, heap,
                   _last_request_to_attempt_count, last, hist, calls>>
    /\ UNCHANGED <<supplied, handlers>>

\* line 128: the value read plus 1 is stored in the loaded dict at [request]
Store(t) ==
    /\ pc[t] = "store"
    /\ heap' = [heap EXCEPT ![frame[t].d][frame[t].outcome.request] = frame[t].v + 1]
    /\ pc' = [pc EXCEPT ![t] = "filters"]
    /\ UNCHANGED <<response_filters, backoff_strategies,
                   _last_request_to_attempt_count, last, hist, frame, calls>>
    /\ UNCHANGED <<supplied, handlers>>

\* lines 129-135: the filters are asked and the call returns
Filters(t) ==
    /\ pc[t] = "filters"
    /\ frame' = [frame EXCEPT ![t].resolution =
                    resolve_error(response_filters, frame[t].outcome).resolution]
    /\ pc' = [pc EXCEPT ![t] = "idle"]
    /\ UNCHANGED <<response_filters, backoff_strategies, heap,
                   _last_request_to_attempt_count, last, hist, calls>>
    /\ UNCHANGED <<supplied, handlers>>

NextFlows ==
    \E t \in Flows :
        \/ \E o \in FlowOutcomes : Call(t, o)
        \/ Test(t)
        \/ StoreNew(t)
        \/ Load(t)
        \/ Subscr(t)
        \/ Store(t)
        \/ Filters(t)

SpecFlows == InitFlows /\ [][NextFlows]_vars

----------------------------------------------------------------------------
(* Properties of concurrent use *)

AllIdle == \A t \in Flows : pc[t] = "idle"

AllCalls == calls["flow1"] \o calls["flow2"]

\* the orders in which the counted calls of all flows can be run one after another
SerialOrders ==
    { s \in [1..Len(AllCalls) -> Requests] :
        \A r \in Requests : Occurrences(s, r) = Occurrences(AllCalls, r) }

\* the dict after the counted calls of s have run one after another
RECURSIVE SerialRun(_, _, _)
SerialRun(s, i, st) ==
    IF i > Len(s)
      THEN st.heap[st.ref]
      ELSE SerialRun(s, i + 1, update_attempt_count(st.heap, st.ref, s[i]))

SameDict(a, b) ==
    /\ DOMAIN a = DOMAIN b
    /\ \A k \in DOMAIN a : a[k] = b[k]

\* C9: when no call is running, the attempt counts are those that some serial
\* order of the calls made so far leaves
C9_NoLostUpdate ==
    AllIdle =>
        \E s \in SerialOrders :
            SameDict(AttemptCount, SerialRun(s, 1, [heap |-> <<EmptyDict>>, ref |-> 1]))

\* C10: no interleaving ends a call with a missing-key error
C10_NeverRaises ==
    \A t \in Flows : frame[t].raised # "KeyError"

====
